---- MODULE Spec2Model ----
(***************************************************************************)
(* A model of chanque: the Executor (self-scaling worker pool), and the    *)
(* default and buffered Worker built on it.                                *)
(*                                                                         *)
(* Every atomic operation of the Go code (an atomic load/add, a channel    *)
(* send/receive, a mutex-protected critical section) is one action; the    *)
(* goroutines interleave freely between them.                              *)
(***************************************************************************)
EXTENDS Integers, Sequences, FiniteSets, TLC

(***************************************************************************)
(* Bounds of the model.                                                    *)
(***************************************************************************)
MaxMin     == 1   \* largest minWorker an Executor is created with
MaxMax     == 2   \* largest maxWorker an Executor is created with
MaxCap     == 1   \* largest job-queue capacity (ExecutorMaxCapacity)
NClients   == 2   \* goroutines calling Executor.Submit concurrently
NClosers   == 2   \* goroutines calling Shutdown, CloseEnqueue or ShutdownAndWait
MaxLoops   == 3   \* execloop goroutines the clients' pool spawns altogether
MaxParams  == 3   \* parameters the caller of Worker.Enqueue hands over
MaxBufferLoops == 3 \* loops of the largest pool a buffered worker is run on

Clients == 1 .. NClients
RL      == 0                      \* the caller id of a worker's runloop
Callers == Clients \cup {RL}
Closers == 1 .. NClosers

VARIABLES
  minWorker, maxWorker, maxCapacity,  \* Executor configuration (fixed at construction)
  workerNum, runningNum,              \* e.workerNum, e.runningNum (atomics)
  jobCancel,                          \* e.jobCancel: loop ids whose cancel func is recorded
  cancelled,                          \* loop ids whose context has been cancelled
  loops,                              \* every execloop goroutine ever spawned, by id
  jobsBuf, jobsClosed,                \* e.jobs: buffered values, closed flag
  sub,                                \* per caller: the position inside Executor.Submit
  hpc, hWorkers, hRunning,            \* healthloop: position and its two locals
  hcancelled,                         \* healthCancel() has been called
  rwaited,                            \* ReleaseAndWait: e.wg.Wait() has returned
  wkind,                              \* the Worker built on the pool: "none", "default", "buffer"
  wflag, wqClosed,                    \* w.closed (atomic flag); w.queue is closed
  wcancelled,                         \* w.cancel() has been called
  prod, nextParam,                    \* the goroutine calling w.Enqueue; its next parameter
  rlpc, buffer,                       \* runloop: position, and its local buffer
  chk, chkClosed,                     \* w.chkqueue: signals held (capacity 1), closed flag
  brunning,                           \* runloop's local "running" flag (atomic)
  subWg,                              \* the SubExecutor's wait-group counter
  shpc,                               \* per caller of Shutdown/CloseEnqueue/ShutdownAndWait: its position
  swaited,                            \* callers of ShutdownAndWait whose w.subexec.Wait() has returned
  accepted, started,                  \* history: parameters accepted by Enqueue; handed to the handler
  handling                            \* parameters whose handler invocation is in flight

cfgVars    == <<minWorker, maxWorker, maxCapacity>>
countVars  == <<workerNum, runningNum>>
cancelVars == <<jobCancel, cancelled>>
queueVars  == <<jobsBuf, jobsClosed>>
healthVars == <<hpc, hWorkers, hRunning>>
wVars      == <<wkind, wflag, wqClosed, wcancelled, prod, nextParam, rlpc, buffer,
                chk, chkClosed, brunning, subWg, shpc, swaited, accepted, started, handling>>
vars       == <<cfgVars, countVars, cancelVars, queueVars, healthVars, hcancelled,
                rwaited, loops, sub, wVars>>

(***************************************************************************)
(* Jobs.  What a user job does (return, sooner or later, or panic) shows   *)
(* only when it runs, and is chosen there.                                 *)
(***************************************************************************)
NoJob   == [kind |-> "none", batch |-> <<>>, done |-> "none"]
UserJob == [kind |-> "user", batch |-> <<>>, done |-> "none"]

NewLoop  == [pc |-> "wait", job |-> NoJob]
IdleProd == [pc |-> "idle", p |-> 0]

\* No Worker is built on the pool.
NoWorker ==
  /\ wkind = "none"
  /\ wflag = 0
  /\ wqClosed = FALSE
  /\ wcancelled = FALSE
  /\ prod = IdleProd
  /\ nextParam = 1
  /\ rlpc = "none"
  /\ buffer = <<>>
  /\ chk = 0
  /\ chkClosed = FALSE
  /\ brunning = 0
  /\ subWg = 0
  /\ shpc = [s \in Closers |-> "none"]
  /\ swaited = {}
  /\ accepted = <<>>
  /\ started = <<>>
  /\ handling = {}

IdleCall == [pc |-> "idle", job |-> NoJob, running |-> 0]

Max(a, b) == IF a < b THEN b ELSE a

LoopIds      == 1 .. Len(loops)
Live(l)      == loops[l].pc # "exited"
LiveLoops    == {l \in LoopIds : Live(l)}
\* The loop is between increRunning() and decreRunning().
Executing(l) == loops[l].pc \in {"run", "handling", "recheck", "ran"}
InSubmit(c)  == sub[c].pc # "idle"
\* Callers between the optimistic increment and its rollback.
RollingBack  == {c \in Callers : sub[c].pc = "decre"}
\* Callers that may still spawn a loop.
MaySpawn     == {c \in Callers : sub[c].pc \in {"load", "incre", "spawn"}}

(***************************************************************************)
(* NewExecutor: the bounds are normalised, minWorker loops and the health  *)
(* loop are spawned.                                                       *)
(***************************************************************************)
NormMin(m)    == IF m < 1 THEN 0 ELSE m
NormMax(m, x) == Max(IF x < 1 THEN 1 ELSE x, NormMin(m))
NormCap(c)    == IF c < 1 THEN 0 ELSE c

NewExecutor(m, x, c) ==
  /\ minWorker   = NormMin(m)
  /\ maxWorker   = NormMax(m, x)
  /\ maxCapacity = NormCap(c)
  /\ workerNum   = NormMin(m)
  /\ runningNum  = 0
  /\ jobCancel   = [i \in 1 .. NormMin(m) |-> i]
  /\ cancelled   = {}
  /\ loops       = [i \in 1 .. NormMin(m) |-> NewLoop]
  /\ jobsBuf     = <<>>
  /\ jobsClosed  = FALSE
  /\ sub         = [c1 \in Callers |-> IdleCall]
  /\ hpc         = "wait"
  /\ hWorkers    = 0
  /\ hRunning    = 0
  /\ hcancelled  = FALSE
  /\ rwaited     = FALSE

Init ==
  /\ \E m \in 0 .. MaxMin, x \in 0 .. MaxMax, c \in 0 .. MaxCap : NewExecutor(m, x, c)
  /\ NoWorker

(***************************************************************************)
(* Executor.Submit, step by step.                                          *)
(***************************************************************************)
\* Submit(fn) is called by a client goroutine (the idle one of lowest id: they
\* are interchangeable); a nil job is dropped at once.
SubmitCall(c) ==
  /\ sub[c].pc = "idle"
  /\ \A c2 \in Clients : c2 < c => InSubmit(c2)
  /\ Len(loops) + Cardinality(MaySpawn) < MaxLoops
  /\ \E fn \in {NoJob, UserJob} :
       IF fn = NoJob
       THEN UNCHANGED sub
       ELSE sub' = [sub EXCEPT ![c] = [pc |-> "load", job |-> fn, running |-> 0]]
  /\ UNCHANGED <<cfgVars, countVars, cancelVars, queueVars, healthVars, hcancelled, rwaited,
                 loops, wVars>>

\* startOndemand: running := Running(); below minWorker no growth is tried.
StartOndemandLoad(c) ==
  /\ sub[c].pc = "load"
  /\ sub' = [sub EXCEPT ![c].running = IF runningNum < minWorker THEN 0 ELSE runningNum,
                        ![c].pc = IF runningNum < minWorker THEN "enq" ELSE "incre"]
  /\ UNCHANGED <<cfgVars, countVars, cancelVars, queueVars, healthVars, hcancelled, rwaited,
                 loops, wVars>>

GrowthAllowedOffByOne(running, next) ==
  running < next /\ minWorker < next /\ next <= maxWorker + 1

\* The three nested ifs of startOndemand on the post-increment counter.
GrowthAllowed(running, next) ==
  running < next /\ minWorker < next /\ next <= maxWorker

StartOndemandIncreLostUpdate(c) ==
  /\ sub[c].pc = "incre"
  /\ sub' = [sub EXCEPT ![c].running = 0,
                        ![c].pc = IF GrowthAllowed(sub[c].running, workerNum + 1)
                                  THEN "spawn" ELSE "decre"]
  /\ UNCHANGED <<cfgVars, countVars, cancelVars, queueVars, healthVars, hcancelled, rwaited,
                 loops, wVars>>

\* next := increWorker(): the optimistic increment, and the decision it takes.
StartOndemandIncre(c) ==
  /\ sub[c].pc = "incre"
  /\ workerNum' = workerNum + 1
  /\ sub' = [sub EXCEPT ![c].running = 0,
                        ![c].pc = IF GrowthAllowed(sub[c].running, workerNum + 1)
                                  THEN "spawn" ELSE "decre"]
  /\ UNCHANGED <<cfgVars, runningNum, cancelVars, queueVars, healthVars, hcancelled, rwaited,
                 loops, wVars>>

\* Under the mutex: record the cancel func and start the execloop goroutine.
StartOndemandSpawn(c) ==
  /\ sub[c].pc = "spawn"
  /\ loops' = Append(loops, NewLoop)
  /\ jobCancel' = Append(jobCancel, Len(loops) + 1)
  /\ sub' = [sub EXCEPT ![c].pc = "enq"]
  /\ UNCHANGED <<cfgVars, countVars, cancelled, queueVars, healthVars, hcancelled, rwaited, wVars>>

StartOndemandNoRollback(c) ==
  /\ sub[c].pc = "decre"
  /\ sub' = [sub EXCEPT ![c].pc = "enq"]
  /\ UNCHANGED <<cfgVars, countVars, cancelVars, queueVars, healthVars, hcancelled, rwaited,
                 loops, wVars>>

\* The rollback: e.decreWorker().
StartOndemandRollback(c) ==
  /\ sub[c].pc = "decre"
  /\ workerNum' = workerNum - 1
  /\ sub' = [sub EXCEPT ![c].pc = "enq"]
  /\ UNCHANGED <<cfgVars, runningNum, cancelVars, queueVars, healthVars, hcancelled, rwaited,
                 loops, wVars>>

\* e.jobs.Enqueue(fn) on a queue with room in its buffer.
SubmitEnqueueBuffered(c) ==
  /\ sub[c].pc = "enq"
  /\ ~jobsClosed
  /\ Len(jobsBuf) < maxCapacity
  /\ jobsBuf' = Append(jobsBuf, sub[c].job)
  /\ sub' = [sub EXCEPT ![c] = IdleCall]
  /\ UNCHANGED <<cfgVars, countVars, cancelVars, jobsClosed, healthVars, hcancelled, rwaited,
                 loops, wVars>>

\* e.jobs.Enqueue(fn) on a closed queue reports false; Submit returns.
SubmitEnqueueClosed(c) ==
  /\ sub[c].pc = "enq"
  /\ jobsClosed
  /\ sub' = [sub EXCEPT ![c] = IdleCall]
  /\ UNCHANGED <<cfgVars, countVars, cancelVars, queueVars, healthVars, hcancelled, rwaited,
                 loops, wVars>>

(***************************************************************************)
(* execloop.                                                               *)
(***************************************************************************)
\* case job, ok := <-jobs.Chan() with a buffered value.
ExecloopRecvBuffered(l) ==
  /\ loops[l].pc = "wait"
  /\ jobsBuf # <<>>
  /\ loops' = [loops EXCEPT ![l] = [pc |-> "got", job |-> Head(jobsBuf)]]
  /\ jobsBuf' = Tail(jobsBuf)
  /\ UNCHANGED <<cfgVars, countVars, cancelVars, jobsClosed, healthVars, hcancelled, rwaited,
                 sub, wVars>>

\* case job, ok := <-jobs.Chan() meeting a sender blocked in Enqueue (capacity 0).
ExecloopRecvHandoff(l, c) ==
  /\ loops[l].pc = "wait"
  /\ sub[c].pc = "enq"
  /\ ~jobsClosed
  /\ maxCapacity = 0
  /\ loops' = [loops EXCEPT ![l] = [pc |-> "got", job |-> sub[c].job]]
  /\ sub' = [sub EXCEPT ![c] = IdleCall]
  /\ UNCHANGED <<cfgVars, countVars, cancelVars, queueVars, healthVars, hcancelled, rwaited, wVars>>

\* The loop returns; its deferred decreWorker and wg.Done run.
LoopExit(ls, l) == [ls EXCEPT ![l] = [pc |-> "exited", job |-> NoJob]]

\* cancel() of the recorded handles hs: the contexts of the loops still alive
\* become cancelled (cancelling the context of a goroutine that has ended
\* changes nothing).
Cancel(hs) == cancelled \cup {l \in hs : Live(l)}

\* case <-ctx.Done(): return.
ExecloopCancelled(l) ==
  /\ loops[l].pc = "wait"
  /\ l \in cancelled
  /\ loops' = LoopExit(loops, l)
  /\ cancelled' = cancelled \ {l}
  /\ workerNum' = workerNum - 1
  /\ UNCHANGED <<cfgVars, runningNum, jobCancel, queueVars, healthVars, hcancelled, rwaited,
                 sub, wVars>>

\* ok != true: the job queue is closed and drained.
ExecloopClosed(l) ==
  /\ loops[l].pc = "wait"
  /\ jobsClosed
  /\ jobsBuf = <<>>
  /\ loops' = LoopExit(loops, l)
  /\ cancelled' = cancelled \ {l}
  /\ workerNum' = workerNum - 1
  /\ UNCHANGED <<cfgVars, runningNum, jobCancel, queueVars, healthVars, hcancelled, rwaited,
                 sub, wVars>>

\* e.increRunning(), then fn() is called.
ExecloopIncreRunning(l) ==
  /\ loops[l].pc = "got"
  /\ runningNum' = runningNum + 1
  /\ loops' = [loops EXCEPT ![l].pc = "run"]
  /\ UNCHANGED <<cfgVars, workerNum, cancelVars, queueVars, healthVars, hcancelled, rwaited,
                 sub, wVars>>

\* fn() of a user job returns and e.decreRunning() follows; the loop is back at
\* its select.
UserJobReturn(l) ==
  /\ loops[l].pc = "run"
  /\ loops[l].job.kind = "user"
  /\ runningNum' = runningNum - 1
  /\ loops' = [loops EXCEPT ![l] = NewLoop]
  /\ UNCHANGED <<cfgVars, workerNum, cancelVars, queueVars, healthVars, hcancelled, rwaited,
                 sub, wVars>>

\* What a panic inside fn() does to the loop that called it: execloop has no
\* recover around fn(), so the panic unwinds execloop itself; its deferred
\* functions run (decreWorker, the recover that calls the panic handler,
\* wg.Done) and the goroutine ends.  e.decreRunning() is skipped.
PanicUnwindsLoop(ls, l) == LoopExit(ls, l)

\* fn() of a user job panics.
UserJobPanic(l) ==
  /\ loops[l].pc = "run"
  /\ loops[l].job.kind = "user"
  /\ loops' = PanicUnwindsLoop(loops, l)
  /\ cancelled' = cancelled \ {l}
  /\ workerNum' = workerNum - 1
  /\ UNCHANGED <<cfgVars, runningNum, jobCancel, queueVars, healthVars, hcancelled, rwaited,
                 sub, wVars>>

(***************************************************************************)
(* healthloop and releaseJob.                                              *)
(***************************************************************************)
\* case <-ticker.C: currentWorkerNum := e.Workers()
HealthTick ==
  /\ hpc = "wait"
  /\ hWorkers' = workerNum
  /\ hpc' = "running"
  /\ UNCHANGED <<cfgVars, countVars, cancelVars, queueVars, hRunning, hcancelled, rwaited,
                 loops, sub, wVars>>

\* runningWorkerNum := e.Running(); idleWorkers is computed and compared.
HealthLoadRunning ==
  /\ hpc = "running"
  /\ IF minWorker < hWorkers - runningNum
     THEN hRunning' = runningNum /\ hpc' = "release" /\ UNCHANGED hWorkers
     ELSE hRunning' = 0 /\ hWorkers' = 0 /\ hpc' = "wait"
  /\ UNCHANGED <<cfgVars, countVars, cancelVars, queueVars, hcancelled, rwaited,
                 loops, sub, wVars>>

ReduceSize == (hWorkers - hRunning) - minWorker

\* releaseJob(reduceSize) under the mutex.  Slicing jobCancel past its length
\* panics before any cancel func is called; healthloop's deferred function
\* recovers the panic and healthloop returns.
HealthReleaseJob ==
  /\ hpc = "release"
  /\ IF ReduceSize <= Len(jobCancel)
     THEN /\ cancelled' = Cancel({jobCancel[i] : i \in 1 .. ReduceSize})
          /\ jobCancel' = SubSeq(jobCancel, ReduceSize + 1, Len(jobCancel))
          /\ hpc' = "wait"
     ELSE /\ hpc' = "panicked"
          /\ UNCHANGED <<cancelled, jobCancel>>
  /\ hWorkers' = 0
  /\ hRunning' = 0
  /\ UNCHANGED <<cfgVars, countVars, queueVars, hcancelled, rwaited, loops, sub, wVars>>

\* case <-ctx.Done(): return.
HealthCancelled ==
  /\ hpc = "wait"
  /\ hcancelled
  /\ hpc' = "exited"
  /\ UNCHANGED <<cfgVars, countVars, cancelVars, queueVars, hWorkers, hRunning, hcancelled, rwaited,
                 loops, sub, wVars>>

(***************************************************************************)
(* ForceStop and Release.                                                  *)
(***************************************************************************)
ForceStop ==
  /\ cancelled' = Cancel({jobCancel[i] : i \in 1 .. Len(jobCancel)})
  /\ jobCancel' = <<>>
  /\ UNCHANGED <<cfgVars, countVars, queueVars, healthVars, hcancelled, rwaited,
                 loops, sub, wVars>>

\* Release: e.healthCancel()
ReleaseHealthCancel ==
  /\ ~hcancelled
  /\ hcancelled' = TRUE
  /\ UNCHANGED <<cfgVars, countVars, cancelVars, queueVars, healthVars, rwaited,
                 loops, sub, wVars>>

\* Release: e.jobs.Close()
ReleaseClose ==
  /\ hcancelled
  /\ ~jobsClosed
  /\ jobsClosed' = TRUE
  /\ UNCHANGED <<cfgVars, countVars, cancelVars, jobsBuf, healthVars, hcancelled, rwaited,
                 loops, sub, wVars>>

\* e.wg: one count for every execloop goroutine and for healthloop, added
\* before the goroutine starts and given back by its deferred wg.Done().
WgCount ==
  Cardinality(LiveLoops) + (IF hpc \in {"exited", "panicked"} THEN 0 ELSE 1)

\* ReleaseAndWait: Release() has returned and e.wg.Wait() returns, the wait
\* group being at zero.
ReleaseWait ==
  /\ jobsClosed
  /\ ~rwaited
  /\ WgCount = 0
  /\ rwaited' = TRUE
  /\ UNCHANGED <<cfgVars, countVars, cancelVars, queueVars, healthVars, hcancelled,
                 loops, sub, wVars>>

(***************************************************************************)
(* The Executor used directly by client goroutines.                        *)
(***************************************************************************)
Next ==
  \/ \E c \in Clients : SubmitCall(c)
  \/ \E c \in Clients : StartOndemandLoad(c)
  \/ \E c \in Clients : StartOndemandIncre(c)
  \/ \E c \in Clients : StartOndemandSpawn(c)
  \/ \E c \in Clients : StartOndemandRollback(c)
  \/ \E c \in Clients : SubmitEnqueueBuffered(c)
  \/ \E c \in Clients : SubmitEnqueueClosed(c)
  \/ \E l \in LoopIds : ExecloopRecvBuffered(l)
  \/ \E l \in LoopIds, c \in Clients : ExecloopRecvHandoff(l, c)
  \/ \E l \in LoopIds : ExecloopCancelled(l)
  \/ \E l \in LoopIds : ExecloopClosed(l)
  \/ \E l \in LoopIds : ExecloopIncreRunning(l)
  \/ \E l \in LoopIds : UserJobReturn(l)
  \/ \E l \in LoopIds : UserJobPanic(l)
  \/ HealthTick
  \/ HealthLoadRunning
  \/ HealthReleaseJob
  \/ HealthCancelled
  \/ ForceStop
  \/ ReleaseHealthCancel
  \/ ReleaseClose
  \/ ReleaseWait

Spec == Init /\ [][Next]_vars

(***************************************************************************)
(* An Executor that is never released nor force-stopped and whose jobs do  *)
(* not panic, fed by one client goroutine.  The scheduler is fair to every *)
(* goroutine and the ticker keeps firing; whether the client calls Submit  *)
(* again, and whether a running job returns, is up to them.                *)
(***************************************************************************)
LoopSlots == 1 .. MaxLoops

ClientStep(c) ==
  \/ StartOndemandLoad(c)
  \/ StartOndemandIncre(c)
  \/ StartOndemandSpawn(c)
  \/ StartOndemandRollback(c)
  \/ SubmitEnqueueBuffered(c)

LoopStep(l) ==
  /\ l \in LoopIds
  /\ \/ ExecloopRecvBuffered(l)
     \/ ExecloopRecvHandoff(l, 1)
     \/ ExecloopCancelled(l)
     \/ ExecloopIncreRunning(l)

HealthStep ==
  \/ HealthTick
  \/ HealthLoadRunning
  \/ HealthReleaseJob

NextSteady ==
  \/ SubmitCall(1)
  \/ ClientStep(1)
  \/ \E l \in LoopSlots : LoopStep(l)
  \/ \E l \in LoopIds : UserJobReturn(l)
  \/ HealthStep

Fairness ==
  /\ WF_vars(ClientStep(1))
  /\ \A l \in LoopSlots : WF_vars(LoopStep(l))
  /\ WF_vars(HealthStep)

SpecSteady == Init /\ [][NextSteady]_vars /\ Fairness

(***************************************************************************)
(* The same, with jobs that run for as long as the pool is observed.       *)
(***************************************************************************)
NextLong ==
  \/ SubmitCall(1)
  \/ ClientStep(1)
  \/ \E l \in LoopSlots : LoopStep(l)
  \/ HealthStep

SpecLong == Init /\ [][NextLong]_vars /\ Fairness

(***************************************************************************)
(* The same pool as SpecSteady, with jobs that all return: the goroutine   *)
(* running fn() is scheduled and fn() terminates without a panic.          *)
(***************************************************************************)
JobStep(l) == l \in LoopIds /\ UserJobReturn(l)

SpecTerminating ==
  Init /\ [][NextSteady]_vars /\ Fairness /\ \A l \in LoopSlots : WF_vars(JobStep(l))

(***************************************************************************)
(* Workers.  A Worker owns a parameter queue of capacity 0 and runs its    *)
(* dispatch loop (runloop) as one job of an Executor, submitted through a  *)
(* SubExecutor.  Handlers return; the pool under a Worker is neither       *)
(* released nor force-stopped.                                             *)
(***************************************************************************)
DefaultBufferPool == 2   \* NewBufferWorker: NewExecutor(2, 2)

RunloopJob    == [kind |-> "runloop", batch |-> <<>>, done |-> "none"]
CheckJob      == [kind |-> "check", batch |-> <<>>, done |-> "none"]
ExecJob(q, d) == [kind |-> "exec", batch |-> q, done |-> d]

\* SubExecutor.Submit(job): the wait group counts the job, which is handed to
\* the parent Executor's Submit wrapped so that it reports its end.
SubExecutorSubmit(job) ==
  /\ subWg' = subWg + 1
  /\ sub' = [sub EXCEPT ![RL] = [pc |-> "load", job |-> job, running |-> 0]]

\* NewDefaultWorker / NewBufferWorker on NewExecutor(m, x): the state when the
\* constructor returns.  initWorker's Submit(w.runloop) found Running() = 0
\* below minWorker, so it did not grow the pool, and its Enqueue handed the
\* job to one of the m waiting loops.
NewWorker(kind, m, x) ==
  /\ minWorker   = m
  /\ maxWorker   = x
  /\ maxCapacity = 0
  /\ workerNum   = m
  /\ runningNum  = 0
  /\ jobCancel   = [i \in 1 .. m |-> i]
  /\ cancelled   = {}
  /\ loops       = [i \in 1 .. m |-> IF i = 1 THEN [pc |-> "got", job |-> RunloopJob]
                                               ELSE NewLoop]
  /\ jobsBuf     = <<>>
  /\ jobsClosed  = FALSE
  /\ sub         = [c1 \in Callers |-> IdleCall]
  /\ hpc         = "wait"
  /\ hWorkers    = 0
  /\ hRunning    = 0
  /\ hcancelled  = FALSE
  /\ rwaited     = FALSE
  /\ wkind       = kind
  /\ wflag       = 0
  /\ wqClosed    = FALSE
  /\ wcancelled  = FALSE
  /\ prod        = IdleProd
  /\ nextParam   = 1
  /\ rlpc        = "select"
  /\ buffer      = <<>>
  /\ chk         = 0
  /\ chkClosed   = FALSE
  /\ brunning    = 0
  /\ subWg       = 1
  /\ shpc        = [s \in Closers |-> "none"]
  /\ swaited     = {}
  /\ accepted    = <<>>
  /\ started     = <<>>
  /\ handling    = {}

\* The loop is executing the runloop job.
RunsRunloop(l) == loops[l].pc = "run" /\ loops[l].job.kind = "runloop"

\* runloop is at its select (and not inside a Submit).
AtSelect(l) == RunsRunloop(l) /\ rlpc = "select" /\ ~InSubmit(RL)

\* fn() has returned inside the SubExecutor's wrapper: wg.Done().
JobReturned(ls, l) == [ls EXCEPT ![l] = [pc |-> "ran", job |-> NoJob]]

\* The caller's goroutine: w.Enqueue(param), one parameter after the other.
EnqueueCall ==
  /\ prod.pc = "idle"
  /\ nextParam <= MaxParams
  /\ prod' = [pc |-> "enq", p |-> nextParam]
  /\ nextParam' = nextParam + 1
  /\ UNCHANGED <<cfgVars, countVars, cancelVars, queueVars, healthVars, hcancelled, rwaited,
                 loops, sub, wkind, wflag, wqClosed, wcancelled, rlpc, buffer,
                 chk, chkClosed, brunning, subWg, shpc, swaited, accepted, started, handling>>

\* w.queue.Enqueue(param) on the closed queue reports false.
EnqueueClosed ==
  /\ prod.pc = "enq"
  /\ wqClosed
  /\ prod' = IdleProd
  /\ UNCHANGED <<cfgVars, countVars, cancelVars, queueVars, healthVars, hcancelled, rwaited,
                 loops, sub, wkind, wflag, wqClosed, wcancelled, nextParam, rlpc, buffer,
                 chk, chkClosed, brunning, subWg, shpc, swaited, accepted, started, handling>>

TryQueueCloseNoSwap(s) ==
  /\ wkind # "none"
  /\ shpc[s] = "none"
  /\ s > 1 => shpc[s - 1] # "none"
  /\ wflag' = 1
  /\ shpc' = [shpc EXCEPT ![s] = "close"]
  /\ UNCHANGED <<cfgVars, countVars, cancelVars, queueVars, healthVars, hcancelled, rwaited,
                 loops, sub, wkind, wqClosed, wcancelled, prod, nextParam, rlpc, buffer,
                 chk, chkClosed, brunning, subWg, swaited, accepted, started, handling>>

\* Shutdown / ShutdownAndWait -> CloseEnqueue -> tryQueueClose: the
\* compare-and-swap on w.closed.  A caller whose swap fails returns false
\* from CloseEnqueue at once.  (Callers are interchangeable: caller s + 1
\* calls only after caller s has.)
TryQueueClose(s) ==
  /\ wkind # "none"
  /\ shpc[s] = "none"
  /\ s > 1 => shpc[s - 1] # "none"
  /\ wflag' = 1
  /\ shpc' = [shpc EXCEPT ![s] = IF wflag = 0 THEN "close" ELSE "false"]
  /\ UNCHANGED <<cfgVars, countVars, cancelVars, queueVars, healthVars, hcancelled, rwaited,
                 loops, sub, wkind, wqClosed, wcancelled, prod, nextParam, rlpc, buffer,
                 chk, chkClosed, brunning, subWg, swaited, accepted, started, handling>>

CloseEnqueueNoClose(s) ==
  /\ shpc[s] = "close"
  /\ shpc' = [shpc EXCEPT ![s] = "true"]
  /\ UNCHANGED <<cfgVars, countVars, cancelVars, queueVars, healthVars, hcancelled, rwaited,
                 loops, sub, wkind, wflag, wqClosed, wcancelled, prod, nextParam, rlpc,
                 buffer, chk, chkClosed, brunning, subWg, swaited, accepted, started,
                 handling>>

\* CloseEnqueue: w.queue.Close(); return true.
CloseEnqueue(s) ==
  /\ shpc[s] = "close"
  /\ wqClosed' = TRUE
  /\ shpc' = [shpc EXCEPT ![s] = "true"]
  /\ UNCHANGED <<cfgVars, countVars, cancelVars, queueVars, healthVars, hcancelled, rwaited,
                 loops, sub, wkind, wflag, wcancelled, prod, nextParam, rlpc, buffer,
                 chk, chkClosed, brunning, subWg, swaited, accepted, started, handling>>

SubExecutorWaitEarly(s) ==
  /\ shpc[s] \in {"true", "false"}
  /\ s \notin swaited
  /\ swaited' = swaited \cup {s}
  /\ UNCHANGED <<cfgVars, countVars, cancelVars, queueVars, healthVars, hcancelled, rwaited,
                 loops, sub, wkind, wflag, wqClosed, wcancelled, prod, nextParam, rlpc,
                 buffer, chk, chkClosed, brunning, subWg, shpc, accepted, started,
                 handling>>

\* ShutdownAndWait: w.subexec.Wait() returns once the SubExecutor's wait
\* group is at zero.
SubExecutorWait(s) ==
  /\ shpc[s] \in {"true", "false"}
  /\ s \notin swaited
  /\ subWg = 0
  /\ swaited' = swaited \cup {s}
  /\ UNCHANGED <<cfgVars, countVars, cancelVars, queueVars, healthVars, hcancelled, rwaited,
                 loops, sub, wkind, wflag, wqClosed, wcancelled, prod, nextParam, rlpc,
                 buffer, chk, chkClosed, brunning, subWg, shpc, accepted, started,
                 handling>>

\* Worker.ForceStop: w.cancel().
WorkerForceStop ==
  /\ ~wcancelled
  /\ wcancelled' = TRUE
  /\ UNCHANGED <<cfgVars, countVars, cancelVars, queueVars, healthVars, hcancelled, rwaited,
                 loops, sub, wkind, wflag, wqClosed, prod, nextParam, rlpc, buffer,
                 chk, chkClosed, brunning, subWg, shpc, swaited, accepted, started, handling>>

\* execloop: e.decreRunning() after fn() has returned; back to the select.
ExecloopDecreRunning(l) ==
  /\ loops[l].pc = "ran"
  /\ runningNum' = runningNum - 1
  /\ loops' = [loops EXCEPT ![l] = NewLoop]
  /\ UNCHANGED <<cfgVars, workerNum, cancelVars, queueVars, healthVars, hcancelled, rwaited,
                 sub, wVars>>

(***************************************************************************)
(* defaultWorker.runloop.                                                  *)
(***************************************************************************)
\* The parameter the runloop's handler call was given.
CurrentParam == started[Len(started)]

DefaultRunloopRecvAsync(l) ==
  /\ wkind = "default"
  /\ AtSelect(l)
  /\ prod.pc = "enq"
  /\ ~wqClosed
  /\ prod' = IdleProd
  /\ accepted' = Append(accepted, prod.p)
  /\ started' = Append(started, prod.p)
  /\ handling' = handling \cup {prod.p}
  /\ UNCHANGED <<cfgVars, countVars, cancelVars, queueVars, healthVars, hcancelled, rwaited,
                 loops, sub, wkind, wflag, wqClosed, wcancelled, nextParam, rlpc, buffer,
                 chk, chkClosed, brunning, subWg, shpc, swaited>>

\* case param, ok := <-w.queue.Chan() with ok: the rendezvous with the caller
\* blocked in Enqueue, which returns true; preHook and handler(param) begin.
DefaultRunloopRecv(l) ==
  /\ wkind = "default"
  /\ AtSelect(l)
  /\ prod.pc = "enq"
  /\ ~wqClosed
  /\ prod' = IdleProd
  /\ accepted' = Append(accepted, prod.p)
  /\ started' = Append(started, prod.p)
  /\ handling' = handling \cup {prod.p}
  /\ rlpc' = "handler"
  /\ UNCHANGED <<cfgVars, countVars, cancelVars, queueVars, healthVars, hcancelled, rwaited,
                 loops, sub, wkind, wflag, wqClosed, wcancelled, nextParam, buffer,
                 chk, chkClosed, brunning, subWg, shpc, swaited>>

\* handler(param) and postHook return; the runloop is back at its select.
DefaultHandlerReturn(l) ==
  /\ wkind = "default"
  /\ RunsRunloop(l)
  /\ rlpc = "handler"
  /\ handling' = handling \ {CurrentParam}
  /\ rlpc' = "select"
  /\ UNCHANGED <<cfgVars, countVars, cancelVars, queueVars, healthVars, hcancelled, rwaited,
                 loops, sub, wkind, wflag, wqClosed, wcancelled, prod, nextParam, buffer,
                 chk, chkClosed, brunning, subWg, shpc, swaited, accepted, started>>

\* handler(param) panics: runloop has no recover, so the panic ends the
\* runloop job (wg.Done is deferred by the wrapper) and unwinds the execloop
\* that ran it.
DefaultHandlerPanic(l) ==
  /\ wkind = "default"
  /\ RunsRunloop(l)
  /\ rlpc = "handler"
  /\ handling' = handling \ {CurrentParam}
  /\ rlpc' = "returned"
  /\ subWg' = subWg - 1
  /\ loops' = PanicUnwindsLoop(loops, l)
  /\ cancelled' = cancelled \ {l}
  /\ workerNum' = workerNum - 1
  /\ UNCHANGED <<cfgVars, runningNum, jobCancel, queueVars, healthVars, hcancelled, rwaited,
                 sub, wkind, wflag, wqClosed, wcancelled, prod, nextParam, buffer,
                 chk, chkClosed, brunning, shpc, swaited, accepted, started>>

\* case <-w.ctx.Done(): return, or ok != true: return.
DefaultRunloopReturn(l) ==
  /\ wkind = "default"
  /\ AtSelect(l)
  /\ wcancelled \/ wqClosed
  /\ rlpc' = "returned"
  /\ subWg' = subWg - 1
  /\ loops' = JobReturned(loops, l)
  /\ UNCHANGED <<cfgVars, countVars, cancelVars, queueVars, healthVars, hcancelled, rwaited,
                 sub, wkind, wflag, wqClosed, wcancelled, prod, nextParam, buffer,
                 chk, chkClosed, brunning, shpc, swaited, accepted, started, handling>>

\* A default worker on its private pool, NewExecutor(1, 1).  The worker
\* submits nothing after its construction, so Workers() - Running() stays
\* at most 1 and the health loop never releases a loop.
InitDefault == NewWorker("default", 1, 1)

NextDefault ==
  \/ EnqueueCall
  \/ EnqueueClosed
  \/ \E s \in Closers : TryQueueClose(s)
  \/ \E s \in Closers : CloseEnqueue(s)
  \/ \E s \in Closers : SubExecutorWait(s)
  \/ WorkerForceStop
  \/ \E l \in LoopIds : ExecloopIncreRunning(l)
  \/ \E l \in LoopIds : ExecloopDecreRunning(l)
  \/ \E l \in LoopIds : DefaultRunloopRecv(l)
  \/ \E l \in LoopIds : DefaultHandlerReturn(l)
  \/ \E l \in LoopIds : DefaultHandlerPanic(l)
  \/ \E l \in LoopIds : DefaultRunloopReturn(l)
  \/ HealthTick
  \/ HealthLoadRunning

SpecDefault == InitDefault /\ [][NextDefault]_vars

\* The goroutine blocked in w.queue.Enqueue is woken by the close of the queue
\* and scheduled; nothing is assumed of the handler or of the other callers.
SpecDefaultFair == InitDefault /\ [][NextDefault]_vars /\ WF_vars(EnqueueClosed)

(***************************************************************************)
(* bufferWorker.runloop, and the check and exec jobs it submits.           *)
(***************************************************************************)
\* c.EnqueueNB(struct{}{}) on the chkqueue of capacity 1: the signal is kept
\* if the slot is free and the queue open, dropped otherwise.
EnqueueNB(n) == IF n < 1 /\ ~chkClosed THEN 1 ELSE n

\* case <-w.ctx.Done(): return; the deferred w.chkqueue.Close() runs.
BufferRunloopCancelled(l) ==
  /\ wkind = "buffer"
  /\ AtSelect(l)
  /\ wcancelled
  /\ rlpc' = "cancelled"
  /\ chkClosed' = TRUE
  /\ subWg' = subWg - 1
  /\ loops' = JobReturned(loops, l)
  /\ UNCHANGED <<cfgVars, countVars, cancelVars, queueVars, healthVars, hcancelled, rwaited,
                 sub, wkind, wflag, wqClosed, wcancelled, prod, nextParam, buffer,
                 chk, brunning, shpc, swaited, accepted, started, handling>>

\* case <-w.chkqueue.Chan(): with an empty buffer the loop continues.
BufferRunloopRecvCheck(l) ==
  /\ wkind = "buffer"
  /\ AtSelect(l)
  /\ chk > 0
  /\ chk' = chk - 1
  /\ rlpc' = IF Len(buffer) < 1 THEN "select" ELSE "cas"
  /\ UNCHANGED <<cfgVars, countVars, cancelVars, queueVars, healthVars, hcancelled, rwaited,
                 loops, sub, wkind, wflag, wqClosed, wcancelled, prod, nextParam, buffer,
                 chkClosed, brunning, subWg, shpc, swaited, accepted, started, handling>>

\* CompareAndSwapInt32(&running, 0, 1); on success the buffer is copied,
\* emptied and submitted as a batch whose done() clears the flag and checks
\* again.
BufferRunloopCas(l) ==
  /\ wkind = "buffer"
  /\ RunsRunloop(l)
  /\ rlpc = "cas"
  /\ rlpc' = "select"
  /\ IF brunning = 0
     THEN /\ brunning' = 1
          /\ buffer' = <<>>
          /\ SubExecutorSubmit(ExecJob(buffer, "recheck"))
     ELSE UNCHANGED <<brunning, buffer, sub, subWg>>
  /\ UNCHANGED <<cfgVars, countVars, cancelVars, queueVars, healthVars, hcancelled, rwaited,
                 loops, wkind, wflag, wqClosed, wcancelled, prod, nextParam,
                 chk, chkClosed, shpc, swaited, accepted, started, handling>>

\* case param, ok := <-w.queue.Chan() with ok: the rendezvous with the caller
\* blocked in Enqueue, which returns true; the parameter is appended to the
\* buffer and w.subexec.Submit(check) is called.
BufferRunloopRecvParam(l) ==
  /\ wkind = "buffer"
  /\ AtSelect(l)
  /\ prod.pc = "enq"
  /\ ~wqClosed
  /\ prod' = IdleProd
  /\ accepted' = Append(accepted, prod.p)
  /\ buffer' = Append(buffer, prod.p)
  /\ SubExecutorSubmit(CheckJob)
  /\ UNCHANGED <<cfgVars, countVars, cancelVars, queueVars, healthVars, hcancelled, rwaited,
                 loops, wkind, wflag, wqClosed, wcancelled, nextParam, rlpc,
                 chk, chkClosed, brunning, shpc, swaited, started, handling>>

\* ok != true: the parameter queue is closed; what the buffer holds is
\* submitted as a last batch, with the no-op done().
BufferRunloopRecvClosed(l) ==
  /\ wkind = "buffer"
  /\ AtSelect(l)
  /\ wqClosed
  /\ rlpc' = "closing"
  /\ IF 0 < Len(buffer)
     THEN SubExecutorSubmit(ExecJob(buffer, "noop"))
     ELSE UNCHANGED <<sub, subWg>>
  /\ UNCHANGED <<cfgVars, countVars, cancelVars, queueVars, healthVars, hcancelled, rwaited,
                 loops, wkind, wflag, wqClosed, wcancelled, prod, nextParam, buffer,
                 chk, chkClosed, brunning, shpc, swaited, accepted, started, handling>>

\* return, once the last Submit has returned; the deferred w.chkqueue.Close()
\* runs.
BufferRunloopReturn(l) ==
  /\ wkind = "buffer"
  /\ RunsRunloop(l)
  /\ rlpc = "closing"
  /\ ~InSubmit(RL)
  /\ rlpc' = "returned"
  /\ chkClosed' = TRUE
  /\ subWg' = subWg - 1
  /\ loops' = JobReturned(loops, l)
  /\ UNCHANGED <<cfgVars, countVars, cancelVars, queueVars, healthVars, hcancelled, rwaited,
                 sub, wkind, wflag, wqClosed, wcancelled, prod, nextParam, buffer,
                 chk, brunning, shpc, swaited, accepted, started, handling>>

\* The check job: c.EnqueueNB(struct{}{}), and the job returns.
CheckJobRun(l) ==
  /\ loops[l].pc = "run"
  /\ loops[l].job.kind = "check"
  /\ chk' = EnqueueNB(chk)
  /\ subWg' = subWg - 1
  /\ loops' = JobReturned(loops, l)
  /\ UNCHANGED <<cfgVars, countVars, cancelVars, queueVars, healthVars, hcancelled, rwaited,
                 sub, wkind, wflag, wqClosed, wcancelled, prod, nextParam, rlpc, buffer,
                 chkClosed, brunning, shpc, swaited, accepted, started, handling>>

\* w.exec: w.handler(param) begins on the next parameter of the batch.
ExecHandlerBegin(l) ==
  /\ loops[l].pc = "run"
  /\ loops[l].job.kind = "exec"
  /\ loops[l].job.batch # <<>>
  /\ started' = Append(started, Head(loops[l].job.batch))
  /\ handling' = handling \cup {Head(loops[l].job.batch)}
  /\ loops' = [loops EXCEPT ![l].pc = "handling"]
  /\ UNCHANGED <<cfgVars, countVars, cancelVars, queueVars, healthVars, hcancelled, rwaited,
                 sub, wkind, wflag, wqClosed, wcancelled, prod, nextParam, rlpc, buffer,
                 chk, chkClosed, brunning, subWg, shpc, swaited, accepted>>

\* w.exec: w.handler(param) returns.
ExecHandlerEnd(l) ==
  /\ loops[l].pc = "handling"
  /\ handling' = handling \ {Head(loops[l].job.batch)}
  /\ loops' = [loops EXCEPT ![l].pc = "run",
                            ![l].job.batch = Tail(loops[l].job.batch)]
  /\ UNCHANGED <<cfgVars, countVars, cancelVars, queueVars, healthVars, hcancelled, rwaited,
                 sub, wkind, wflag, wqClosed, wcancelled, prod, nextParam, rlpc, buffer,
                 chk, chkClosed, brunning, subWg, shpc, swaited, accepted, started>>

\* w.exec: the batch is through, postHook has run, the deferred done() runs:
\* atomic.StoreInt32(&running, 0) for a batch of the check branch, nothing
\* for the last batch, after which the job returns.
ExecDone(l) ==
  /\ loops[l].pc = "run"
  /\ loops[l].job.kind = "exec"
  /\ loops[l].job.batch = <<>>
  /\ IF loops[l].job.done = "recheck"
     THEN /\ brunning' = 0
          /\ loops' = [loops EXCEPT ![l].pc = "recheck"]
          /\ UNCHANGED subWg
     ELSE /\ loops' = JobReturned(loops, l)
          /\ subWg' = subWg - 1
          /\ UNCHANGED brunning
  /\ UNCHANGED <<cfgVars, countVars, cancelVars, queueVars, healthVars, hcancelled, rwaited,
                 sub, wkind, wflag, wqClosed, wcancelled, prod, nextParam, rlpc, buffer,
                 chk, chkClosed, shpc, swaited, accepted, started, handling>>

ExecRecheckNoSignal(l) ==
  /\ loops[l].pc = "recheck"
  /\ subWg' = subWg - 1
  /\ loops' = JobReturned(loops, l)
  /\ UNCHANGED <<cfgVars, countVars, cancelVars, queueVars, healthVars, hcancelled, rwaited,
                 sub, wkind, wflag, wqClosed, wcancelled, prod, nextParam, rlpc, buffer,
                 chk, chkClosed, brunning, shpc, swaited, accepted, started, handling>>

\* done(): check(), and the exec job returns.
ExecRecheck(l) ==
  /\ loops[l].pc = "recheck"
  /\ chk' = EnqueueNB(chk)
  /\ subWg' = subWg - 1
  /\ loops' = JobReturned(loops, l)
  /\ UNCHANGED <<cfgVars, countVars, cancelVars, queueVars, healthVars, hcancelled, rwaited,
                 sub, wkind, wflag, wqClosed, wcancelled, prod, nextParam, rlpc, buffer,
                 chkClosed, brunning, shpc, swaited, accepted, started, handling>>

(***************************************************************************)
(* A buffered worker on its private pool, NewExecutor(2, 2), or on a pool  *)
(* of three loops given with WorkerExecutor, NewExecutor(3, 3).  The job   *)
(* queue of these pools has capacity 0 and is never closed.  The runloop   *)
(* is the only caller of Submit and is itself a running job: while it runs *)
(* Workers() - Running() does not exceed minWorker, and these pools        *)
(* neither grow nor shrink before it has returned.  The scheduler is fair  *)
(* to the runloop, to the execution loops and to the health loop; how long *)
(* a handler runs, and whether Enqueue, Shutdown or ForceStop are called,  *)
(* is up to the user.                                                      *)
(***************************************************************************)
PoolSizes == {DefaultBufferPool, MaxBufferLoops}

InitBuffer == \E n \in PoolSizes : NewWorker("buffer", n, n)

BufferLoopSlots == 1 .. MaxBufferLoops

\* The runloop's steps, those of its calls of Submit included.
RunloopStep(l) ==
  \/ BufferRunloopCancelled(l)
  \/ BufferRunloopRecvCheck(l)
  \/ BufferRunloopCas(l)
  \/ BufferRunloopRecvParam(l)
  \/ BufferRunloopRecvClosed(l)
  \/ BufferRunloopReturn(l)

SubmitStep ==
  \/ StartOndemandLoad(RL)
  \/ StartOndemandIncre(RL)
  \/ StartOndemandRollback(RL)

\* The steps of an execution loop and of the check or exec job it runs, but
\* for the return of a handler.
PoolLoopStep(l) ==
  /\ l \in LoopIds
  /\ \/ ExecloopRecvHandoff(l, RL)
     \/ ExecloopCancelled(l)
     \/ ExecloopIncreRunning(l)
     \/ ExecloopDecreRunning(l)
     \/ CheckJobRun(l)
     \/ ExecHandlerBegin(l)
     \/ ExecDone(l)
     \/ ExecRecheck(l)

NextBuffer ==
  \/ EnqueueCall
  \/ EnqueueClosed
  \/ \E s \in Closers : TryQueueClose(s)
  \/ \E s \in Closers : CloseEnqueue(s)
  \/ \E s \in Closers : SubExecutorWait(s)
  \/ WorkerForceStop
  \/ \E l \in LoopIds : RunloopStep(l)
  \/ SubmitStep
  \/ \E l \in LoopIds : PoolLoopStep(l)
  \/ \E l \in LoopIds : ExecHandlerEnd(l)
  \/ HealthStep

FairnessBuffer ==
  /\ WF_vars(\E l \in LoopIds : RunloopStep(l))
  /\ WF_vars(SubmitStep)
  /\ WF_vars(EnqueueClosed)
  /\ \A l \in BufferLoopSlots : WF_vars(PoolLoopStep(l))
  /\ WF_vars(HealthStep)

SpecBuffer == InitBuffer /\ [][NextBuffer]_vars /\ FairnessBuffer

(***************************************************************************)
(* A buffered worker that is never shut down nor force-stopped and whose   *)
(* handler terminates: the goroutine inside the handler is scheduled too.  *)
(* Whether the caller enqueues again is up to the caller.  The runloop     *)
(* never returns, so Workers() - Running() stays at most minWorker and the *)
(* health loop only observes the counters.                                 *)
(***************************************************************************)
RunloopRunningStep(l) ==
  \/ BufferRunloopRecvCheck(l)
  \/ BufferRunloopCas(l)
  \/ BufferRunloopRecvParam(l)

HandlerStep(l) == l \in LoopIds /\ ExecHandlerEnd(l)

NextBufferRunning ==
  \/ EnqueueCall
  \/ \E l \in LoopIds : RunloopRunningStep(l)
  \/ SubmitStep
  \/ \E l \in LoopIds : PoolLoopStep(l)
  \/ \E l \in LoopIds : HandlerStep(l)
  \/ HealthTick
  \/ HealthLoadRunning

FairnessBufferRunning ==
  /\ WF_vars(\E l \in LoopIds : RunloopRunningStep(l))
  /\ WF_vars(SubmitStep)
  /\ \A l \in BufferLoopSlots : WF_vars(PoolLoopStep(l))
  /\ \A l \in BufferLoopSlots : WF_vars(HandlerStep(l))

SpecBufferRunning == InitBuffer /\ [][NextBufferRunning]_vars /\ FairnessBufferRunning

(***************************************************************************)
(* Claims about the Executor.                                              *)
(***************************************************************************)
Running      == {l \in LoopIds : Executing(l)}
Blocked      == {c \in Callers : sub[c].pc = "enq"}
\* Jobs handed to Submit and not finished: being submitted, queued, or held by a loop.
JobsHeld     == Cardinality({c \in Callers : InSubmit(c)}) + Len(jobsBuf)
                + Cardinality({l \in LoopIds : loops[l].pc \in {"got", "run"}})

\* C1: when a submitted job raises a fault, the execution loop that ran it
\* does not exit: a loop that is executing a job is, after the step that ends
\* the job, still a live loop of the pool.
C1_FaultIsolation ==
  [][\A l \in LoopIds : loops[l].pc = "run" => loops'[l].pc # "exited"]_vars

\* C2 (as claimed): Workers() never exceeds maxWorker.
C2_WorkersNeverExceedMax == workerNum <= maxWorker

\* C2 (amended): the number of live execution loops never exceeds maxWorker,
\* and Workers() exceeds maxWorker by at most the number of Submit calls that
\* are between their optimistic increment and its rollback.
C2_WorkersBound ==
  /\ Cardinality(LiveLoops) <= maxWorker
  /\ workerNum <= maxWorker + Cardinality(RollingBack)

\* C2 witness: a Submit has incremented the counter past maxWorker and has
\* not rolled it back yet.
C2_Witness == workerNum > maxWorker /\ RollingBack # {}

\* C3 (as claimed): never more than maxWorker jobs execute at once, and with
\* capacity 0 and maxWorker jobs executing, no job is handed to a loop and no
\* blocked Submit returns in a step that leaves all of them executing.
C3_ConcurrencyBoundNoReturn ==
  [][/\ Cardinality(Running') <= maxWorker
     /\ (maxCapacity = 0 /\ Cardinality(Running) = maxWorker)
          => /\ \A l \in LoopIds : loops'[l].pc = "got" => loops[l].pc = "got"
             /\ \A c \in Blocked : sub'[c].pc = "enq"]_vars

\* C3 (amended): the same, except that a blocked Submit returns, its job
\* dropped, when Release has closed the job queue.
C3_ConcurrencyBound ==
  [][/\ Cardinality(Running') <= maxWorker
     /\ (maxCapacity = 0 /\ Cardinality(Running) = maxWorker)
          => /\ \A l \in LoopIds : loops'[l].pc = "got" => loops[l].pc = "got"
             /\ \A c \in Blocked : sub'[c].pc = "enq" \/ jobsClosed]_vars

\* C3 witness: capacity 0, maxWorker jobs executing, a further Submit blocked
\* in its Enqueue on the open job queue.
C3_Witness ==
  /\ maxCapacity = 0
  /\ Cardinality(Running) = maxWorker
  /\ Blocked # {}
  /\ ~jobsClosed

\* C7: in a pool whose jobs never return, once maxWorker jobs have been
\* submitted one after another, Workers() eventually becomes maxWorker.
C7_OnDemandGrowth ==
  <>(JobsHeld >= maxWorker) => <>(JobsHeld >= maxWorker /\ workerNum = maxWorker)

\* Load has subsided: no job is held and none is being submitted.
Quiet == JobsHeld = 0

\* C8: in a pool that is not released or force-stopped (and whose jobs do not
\* panic), whenever load has subsided Workers() is at least minWorker: the
\* shrink step has not cancelled so many loops that fewer remain.
C8_PoolLowerBound == Quiet => workerNum >= minWorker

\* The pool has more than minWorker execution loops.
Grown == Cardinality(LiveLoops) > minWorker

\* C9: in a pool that has grown above minWorker loops, once no job is running
\* and none is submitted any more, Workers() eventually becomes minWorker and
\* stays there.
C9_ShrinkConvergence == (<>Grown /\ <>[]Quiet) => <>[](workerNum = minWorker)

\* C10: 0 <= Running() <= Workers() in every state, and Running() is 0 when
\* no job is executing.
C10_CounterConsistency ==
  /\ 0 <= runningNum
  /\ runningNum <= workerNum
  /\ (Running = {} => runningNum = 0)

(***************************************************************************)
(* Claims about the Workers.                                               *)
(***************************************************************************)
\* C5: at most one handler invocation of a default worker is in flight at any
\* time, the handler is given the caller's parameters in the order of the
\* Enqueue calls, and only the invocation started last can be in flight: every
\* earlier one has completed before it began.
C5_DefaultOrdering ==
  /\ Cardinality(handling) <= 1
  /\ \A i \in 1 .. Len(started) : started[i] = i
  /\ \A p \in handling : started # <<>> /\ p = started[Len(started)]

\* C5 witness: the handler runs on the second parameter after its invocation
\* on the first has completed.
C5_Witness == wkind = "default" /\ Len(started) >= 2 /\ handling = {2}

\* The worker has been shut down or force-stopped.
ShutDown == wflag = 1 \/ wcancelled

\* C4: on a buffered worker on its default pool of two loops, an Enqueue
\* call returns however long the handler runs: a call that is pending
\* eventually returns, or the worker is shut down, also when a handler
\* invocation never returns.
C4_NonBlockingEnqueue ==
  (maxWorker = DefaultBufferPool /\ prod.pc = "enq") ~> (prod.pc = "idle" \/ ShutDown)

IsPrefix(s1, s2) == Len(s1) <= Len(s2) /\ \A i \in 1 .. Len(s1) : s1[i] = s2[i]

\* C6: the handler of a buffered worker is passed the accepted parameters
\* once each and in the order of their Enqueue, and when the dispatch loop
\* has exited after it observed the Shutdown, the handler has been passed
\* every accepted parameter.
C6_ShutdownDrain ==
  /\ wkind = "buffer" => IsPrefix(started, accepted)
  /\ (wkind = "buffer" /\ rlpc = "returned") => started = accepted

\* The loops running a batch-execution job: between the start of preHook and
\* the end of postHook of bufferWorker.exec.
BatchesInFlight ==
  {l \in LoopIds : loops[l].job.kind = "exec" /\ loops[l].pc \in {"run", "handling"}}

\* C11: at most one batch-execution job of a buffered worker is in flight at
\* any time, the last batch flushed on Shutdown included, on any pool.
C11_BatchSerialization == Cardinality(BatchesInFlight) <= 1

\* C12: after ForceStop has been called on a worker, the handler is not
\* invoked on any parameter that had not been handed to it before: no handler
\* invocation begins once the worker's context is cancelled.
C12_ForceStopAbandons == [][wcancelled => started' = started]_vars

Range(q) == {q[i] : i \in 1 .. Len(q)}

\* runloop has returned (or was ended by a panic of the handler).
RunloopExited == rlpc \in {"returned", "cancelled"}

\* C13: when ShutdownAndWait has returned, the worker's dispatch loop has
\* exited, no handler invocation is in progress, and every parameter accepted
\* by a worker that was not force-stopped has been handed to the handler.
C13_ShutdownAndWaitState ==
  swaited # {} =>
    /\ RunloopExited
    /\ handling = {}
    /\ subWg = 0
    /\ ~wcancelled => Range(started) = Range(accepted)

\* C13: after ShutdownAndWait has returned no handler invocation starts.
C13_ShutdownAndWaitAfter == [][swaited # {} => started' = started]_vars

\* C13, both halves.
C13_ShutdownAndWait == []C13_ShutdownAndWaitState /\ C13_ShutdownAndWaitAfter

\* ShutdownAndWait has returned on a worker that handled several parameters.
C13_Witness == swaited # {} /\ Len(started) >= 2 /\ ~wcancelled

\* The callers that won the swap on w.closed: they call w.queue.Close() and
\* return true from CloseEnqueue; the callers that returned false.
CloseWinners == {s \in Closers : shpc[s] \in {"close", "true"}}
CloseLosers  == {s \in Closers : shpc[s] = "false"}

C14_ClosedOnce ==
  /\ Cardinality(CloseWinners) <= 1
  /\ CloseLosers # {} => Cardinality(CloseWinners) = 1
  /\ wflag = 1 <=> CloseWinners # {}
  /\ wqClosed <=> (\E s \in Closers : shpc[s] = "true")

C14_ClosedStays ==
  [][(wflag = 1 => wflag' = 1) /\ (wqClosed => wqClosed')]_vars

\* C14: over any number of sequential or concurrent calls of Shutdown,
\* CloseEnqueue and ShutdownAndWait, w.queue.Close() is called by one caller
\* only, CloseEnqueue returns true to that caller and false to every other,
\* and neither the closed flag nor the closed queue goes back to open.
C14_ShutdownIdempotent == []C14_ClosedOnce /\ C14_ClosedStays

\* Two calls have returned, one with true and one with false.
C14_Witness == \E s, t \in Closers : shpc[s] = "true" /\ shpc[t] = "false"

\* A Shutdown (CloseEnqueue) has completed: the worker has been shut down.
ShutdownCompleted == \E s \in Closers : shpc[s] = "true"

\* The Enqueue call is pending (blocked in w.queue.Enqueue).
EnqueuePending == prod.pc = "enq"

\* The parameters whose Enqueue has returned false.
Rejected ==
  {p \in 1 .. nextParam - 1 :
     p \notin Range(accepted) /\ (EnqueuePending => prod.p # p)}

C15_RejectedNeverHandled ==
  /\ Rejected \cap Range(started) = {}
  /\ Rejected # {} => ShutdownCompleted

C15_ReturnsFalse ==
  [][(ShutdownCompleted /\ EnqueuePending /\ prod' # prod)
       => (prod' = IdleProd /\ accepted' = accepted /\ started' = started)]_vars

C15_ReturnsEventually == (ShutdownCompleted /\ EnqueuePending) ~> ~EnqueuePending

\* C15: an Enqueue on a worker that has been shut down, whether it was called
\* after the Shutdown or was blocked when the Shutdown completed, returns
\* false, does not block forever, and its parameter never reaches the handler.
C15_EnqueueAfterShutdown ==
  []C15_RejectedNeverHandled /\ C15_ReturnsFalse /\ C15_ReturnsEventually

\* An Enqueue has returned false on a worker that handled a parameter before.
C15_Witness == Rejected # {} /\ Len(started) >= 1 /\ ~EnqueuePending

\* healthloop has returned.
HealthExited == hpc \in {"exited", "panicked"}

\* C16: once ReleaseAndWait has returned, every execution loop ever spawned,
\* the loops spawned by Submit calls concurrent with the release included,
\* and the health loop have exited.
C16_ReleaseAndWait == rwaited => (LiveLoops = {} /\ HealthExited)

\* The loops spawned by initWorker at construction; the others are spawned
\* on demand by startOndemand.
InitialLoops == 1 .. minWorker

\* The handles releaseJob(ReduceSize) invokes: the first ReduceSize entries
\* of jobCancel.
ReleasedHandles == {jobCancel[i] : i \in 1 .. ReduceSize}

\* C17: every cancellation handle invoked by the shrink step belongs to a
\* loop spawned on demand by Submit, never to one of the initial loops.
C17_ShrinkOnDemandOnly ==
  [][(hpc = "release" /\ hpc' = "wait") => ReleasedHandles \cap InitialLoops = {}]_vars

\* The loop is at its select with its context cancelled.
CancelledAtSelect(l) == l \in cancelled /\ loops[l].pc = "wait"

\* C18: a loop whose context has been cancelled, by the shrink step or by
\* ForceStop, starts no further job: from its select it can only exit, even
\* when jobs are waiting in the job queue.
C18_CancelledTakesNoJob ==
  [][\A l \in LoopIds : CancelledAtSelect(l) => loops'[l].pc \in {"wait", "exited"}]_vars

\* The post-increment count is within (minWorker, maxWorker].
InBounds(next) == minWorker < next /\ next <= maxWorker

\* Callers that have decided to spawn and wait for the mutex.
Spawning == {c \in Callers : sub[c].pc = "spawn"}

\* A growth attempt whose post-increment count is out of bounds rolls back,
\* and only an attempt whose count is in bounds goes on to spawn.
C19_Decision(c) ==
  (sub[c].pc = "incre" /\ sub'[c].pc # "incre") =>
    /\ workerNum' = workerNum + 1
    /\ sub'[c].pc = "spawn" => InBounds(workerNum')
    /\ ~InBounds(workerNum') => sub'[c].pc = "decre"

\* The rollback gives the increment back and touches nothing else of the pool.
C19_Rollback(c) ==
  (sub[c].pc = "decre" /\ sub'[c].pc # "decre") =>
    /\ workerNum' = workerNum - 1
    /\ loops' = loops
    /\ jobCancel' = jobCancel
    /\ cancelled' = cancelled

\* A loop is spawned, and a handle recorded, only by a caller that decided to.
C19_SpawnOnlyDecided ==
  (Len(loops') > Len(loops) \/ Len(jobCancel') > Len(jobCancel)) =>
    \E c \in Spawning : sub'[c].pc = "enq"

C19_LiveLoopsBound == Cardinality(LiveLoops) + Cardinality(Spawning) <= maxWorker

\* C19: a growth attempt whose post-increment worker count is outside
\* (minWorker, maxWorker] restores the counter, records no handle and spawns
\* no loop; only attempts whose count is within the bounds spawn, and the
\* live loops, with those about to be spawned, never exceed maxWorker.
C19_GrowthRollback ==
  /\ [][/\ \A c \in Callers : C19_Decision(c) /\ C19_Rollback(c)
        /\ C19_SpawnOnlyDecided]_vars
  /\ []C19_LiveLoopsBound

\* Two concurrent attempts on an empty pool (minWorker = 0): one is about to
\* spawn; the other, which found the count out of bounds, has rolled back and
\* gone on to its Enqueue, leaving the counter at maxWorker and no loop.
C19_Witness ==
  /\ minWorker = 0
  /\ Len(loops) = 0
  /\ workerNum = maxWorker
  /\ \E c1, c2 \in Clients : sub[c1].pc = "spawn" /\ sub[c2].pc = "enq"

\* C20: whenever the health loop runs releaseJob(ReduceSize), jobCancel holds
\* at least ReduceSize handles, each of a live loop whose context is not
\* cancelled yet, and the health loop is not ended by a fault of the slice.
C20_ReleaseWithinHandles ==
  [][(hpc = "release" /\ hpc' # "release") =>
       /\ ReduceSize <= Len(jobCancel)
       /\ \A h \in ReleasedHandles : Live(h) /\ h \notin cancelled
       /\ hpc' # "panicked"]_vars

\* A loop has just received a job from the job queue.
JobTaken == \E l \in LoopIds : loops[l].pc = "got"

C21_SubmitReturns == \A c \in Clients : InSubmit(c) ~> ~InSubmit(c)

C21_QueueDrains == []<>(jobsBuf = <<>> \/ JobTaken)

\* C21: in a pool that is neither released nor force-stopped and whose jobs
\* all return, every Submit of a job eventually returns and the jobs waiting
\* in the job queue keep being taken by a loop, whatever the health loop's
\* shrink steps do in between.
C21_NoStrandedSubmission == C21_SubmitReturns /\ C21_QueueDrains

\* C22: in a buffered worker that is never shut down nor force-stopped and
\* whose handler terminates, every parameter accepted by Enqueue is eventually
\* handed to the handler, whether or not a later Enqueue occurs.
C22_NoLostWakeup ==
  \A p \in 1 .. MaxParams : (p \in Range(accepted)) ~> (p \in Range(started))

\* A parameter sits in the buffer while a batch is in flight and the check
\* signal's single slot is full; earlier parameters have reached the handler
\* and the caller has made its last Enqueue.
C22_Witness ==
  /\ buffer # <<>>
  /\ brunning = 1
  /\ chk = 1
  /\ Len(started) >= 1
  /\ prod.pc = "idle"
  /\ nextParam > MaxParams

====
